---- MODULE Spec2Model ----
(***************************************************************************)
(* Model of the OSTrails proxy service (src/main.py).                      *)
(*                                                                         *)
(*   Flow A  /questionnaire/push   : RDF text -> content store (GitHub)    *)
(*   Flow B  /questionnaire/submit : record -> resolve ids -> remove_empty *)
(*                                   -> authenticate -> post to registry   *)
(*                                                                         *)
(* Every await of a handler is a step of the model; the synchronous code   *)
(* between two awaits belongs to the step that ends at the second one.     *)
(***************************************************************************)
EXTENDS Integers, Sequences, FiniteSets, TLC

VARIABLES
    env,        \* module-level configuration read from the environment
    files,      \* content store: what each path holds
    p_pc,       \* githubpush: position of each request
    p_doc,      \* githubpush: rdf_text
    p_sha,      \* commit_rdf_to_github: sha
    p_result,   \* githubpush: what the caller gets
    p_log,      \* githubpush: store calls and their answers, in order
    p_before,   \* githubpush: the requests that had ended when this one began
    s_pc,       \* submit_record: position of each request
    s_in,       \* submit_record: the request body as received
    s_body,     \* submit_record: body_dict
    s_idx,      \* submit_record: position in the list being resolved
    s_acc,      \* submit_record: resolved_subjects / resolved_domains
    s_token,    \* submit_record: token
    s_result,   \* submit_record: what the caller gets
    s_log,      \* submit_record: upstream calls and sanitizer runs, in order
    issued,     \* registry: number of session tokens issued so far
    san_pc, san_in, san_out, san_again   \* harness applying remove_empty

san_vars == <<san_pc, san_in, san_out, san_again>>

push_vars == <<files, p_pc, p_doc, p_sha, p_result, p_log, p_before>>

sub_vars == <<s_pc, s_in, s_body, s_idx, s_acc, s_token, s_result,
              s_log, issued>>

vars == <<env, push_vars, sub_vars, san_vars>>

(***************************************************************************)
(* JSON values (the result of body.model_dump(mode="json")): a tagged      *)
(* union, so that values of different Python types are never equal.        *)
(***************************************************************************)
Null == [t |-> "null"]

Str(s) == [t |-> "str", v |-> s]

Num(n) == [t |-> "num", v |-> n]

List(l) == [t |-> "list", v |-> l]

Map(m) == [t |-> "map", v |-> m]

EmptyDict == Map(<<>>)

EmptyList == List(<<>>)

\* The tuple (None, "", [], {}) of lines 250 and 253.
EMPTY == {Null, Str(""), EmptyList, EmptyDict}

\* Mutant of remove_empty: nothing is removed.
remove_empty_noop(obj) == obj

RECURSIVE remove_empty(_)
remove_empty(obj) ==
    IF obj.t = "map"
    THEN LET keep == {k \in DOMAIN obj.v :
                         /\ obj.v[k] \notin EMPTY
                         /\ remove_empty(obj.v[k]) # EmptyDict}
         IN  Map([k \in keep |-> remove_empty(obj.v[k])])
    ELSE IF obj.t = "list"
    THEN LET kept    == SelectSeq(obj.v, LAMBDA v : v \notin EMPTY)
             cleaned == [i \in 1..Len(kept) |-> remove_empty(kept[i])]
         IN  List(SelectSeq(cleaned, LAMBDA v : v # EmptyDict))
    ELSE obj

(***************************************************************************)
(* Bounded universe of structured values for the sanitizer harness.        *)
(***************************************************************************)
MaxLen == 2

Keys == {"a", "b"}

Scalars == {Null, Str(""), Str("x")}

SeqsUpTo(S, n) == UNION {[1..k -> S] : k \in 0..n}

MapsOver(S) == UNION {[K -> S] : K \in SUBSET Keys}

Level1 == Scalars \cup {List(l) : l \in SeqsUpTo(Scalars, MaxLen)}
                  \cup {Map(m) : m \in MapsOver(Scalars)}

Level2 == Level1 \cup {List(l) : l \in SeqsUpTo(Level1, MaxLen)}
                 \cup {Map(m) : m \in MapsOver(Level1)}

SanIdle ==
    /\ san_pc = "off"
    /\ san_in = Null
    /\ san_out = Null
    /\ san_again = Null

(***************************************************************************)
(* Python and HTTP notions both flows use.                                 *)
(***************************************************************************)
None == Null

\* Python truthiness of a JSON value.
Truthy(x) == x \notin {Null, Str(""), Num(0), EmptyList, EmptyDict}

\* httpx Response.is_success, which raise_for_status() tests.
Is2xx(status) == status >= 200 /\ status <= 299

NoResult == [kind |-> "none"]

\* An exception that leaves the handler: no try/except around it.
Unhandled(exc) == [kind |-> "unhandled", exc |-> exc]

\* raise HTTPException(status, detail)
HTTPError(status, detail) ==
    [kind |-> "response", status |-> status, message |-> detail]

(***************************************************************************)
(* Flow A: githubpush and commit_rdf_to_github.                            *)
(***************************************************************************)
Configs(auth, data, github) ==
    [AUTH_URL : auth, DATA_URL : data, GITHUB_TOKEN : github]

(* An RDF document: whether the body is blank, whether it parses as        *)
(* Turtle, and the subjects of its dcterms:identifier triples in the order *)
(* the graph yields them. A subject is a URI or a blank node; the path of  *)
(* a URI is what urlparse(...).path.split("/") gives, each segment a       *)
(* sequence of tokens so that a ".ttl" ending can be told apart.           *)
Uri(scheme, host, path) ==
    [isuri |-> TRUE, scheme |-> scheme, host |-> host, path |-> path]

BNode == [isuri |-> FALSE, scheme |-> "", host |-> "", path |-> <<>>]

Doc(text, blank, parses, subjects) ==
    [text |-> text, blank |-> blank, parses |-> parses, subjects |-> subjects]

\* Mutant of StripTtl: flags=re.IGNORECASE left out.
StripTtlCaseSensitive(filename) ==
    IF filename # <<>> /\ filename[Len(filename)] = ".ttl"
    THEN SubSeq(filename, 1, Len(filename) - 1)
    ELSE filename

\* re.sub(r"\.ttl$", "", filename, flags=re.IGNORECASE)
StripTtl(filename) ==
    IF filename # <<>> /\ filename[Len(filename)] \in {".ttl", ".TTL", ".Ttl"}
    THEN SubSeq(filename, 1, Len(filename) - 1)
    ELSE filename

\* The first subject that is a URIRef (0 when there is none).
FirstUri(subjects) ==
    IF \E i \in 1..Len(subjects) : subjects[i].isuri
    THEN CHOOSE i \in 1..Len(subjects) :
            /\ subjects[i].isuri
            /\ \A j \in 1..(i - 1) : ~subjects[j].isuri
    ELSE 0

\* Mutant of _extract_record_info: category and filename taken from the
\* front of the path (path_parts[0], path_parts[1]).
_extract_record_info_from_front(rdf_text) ==
    IF ~rdf_text.parses
    THEN [ok |-> FALSE, error |-> HTTPError(400, "Invalid RDF format")]
    ELSE IF FirstUri(rdf_text.subjects) = 0
    THEN [ok |-> FALSE,
          error |-> HTTPError(400, "No valid identifier or subject URI found in RDF.")]
    ELSE LET uri_candidate == rdf_text.subjects[FirstUri(rdf_text.subjects)]
             path_parts == SelectSeq(uri_candidate.path, LAMBDA seg : seg # <<>>)
         IN  IF Len(path_parts) < 2
             THEN [ok |-> FALSE,
                   error |-> HTTPError(400, "URI is malformed or missing path structure.")]
             ELSE [ok |-> TRUE,
                   record_id |-> StripTtl(path_parts[2]),
                   category |-> path_parts[1],
                   uri_candidate |-> uri_candidate]

\* _extract_record_info: the HTTPException it raises, or the identity.
_extract_record_info(rdf_text) ==
    IF ~rdf_text.parses
    THEN [ok |-> FALSE, error |-> HTTPError(400, "Invalid RDF format")]
    ELSE IF FirstUri(rdf_text.subjects) = 0
    THEN [ok |-> FALSE,
          error |-> HTTPError(400, "No valid identifier or subject URI found in RDF.")]
    ELSE LET uri_candidate == rdf_text.subjects[FirstUri(rdf_text.subjects)]
             path_parts == SelectSeq(uri_candidate.path, LAMBDA seg : seg # <<>>)
         IN  IF Len(path_parts) < 2
             THEN [ok |-> FALSE,
                   error |-> HTTPError(400, "URI is malformed or missing path structure.")]
             ELSE [ok |-> TRUE,
                   record_id |-> StripTtl(path_parts[Len(path_parts)]),
                   category |-> path_parts[Len(path_parts) - 1],
                   uri_candidate |-> uri_candidate]

\* path = f"{category.rstrip('/')}/{record_id}.ttl"
StorePath(category, record_id) == <<category, record_id \o <<".ttl">>>>

(* The content store. A file is absent or holds some content; its hash    *)
(* (the "sha" of the contents API) is a function of the content.           *)
NoFile == [t |-> "nofile"]

Content(text) == [t |-> "content", v |-> text]

ShaOf(file) == IF file = NoFile THEN None ELSE [t |-> "sha", v |-> file.v]

\* What the store can answer to GET /contents/{path} when it holds `file`.
GetResponses(file) ==
    {[net |-> "error", status |-> 0,   sha |-> None],
     [net |-> "ok",    status |-> 500, sha |-> None],
     [net |-> "ok",    status |-> 302, sha |-> None],
     IF file = NoFile
     THEN [net |-> "ok", status |-> 404, sha |-> None]
     ELSE [net |-> "ok", status |-> 200, sha |-> ShaOf(file)]}

\* The store takes a write only with the hash of what it holds: none for a
\* file it does not hold.
StoreAccepts(file, sent_sha) == sent_sha = ShaOf(file)

\* What can become of PUT /contents/{path}: the store's answer, and whether
\* the store applied the write.
PutOutcomes(file, sent_sha) ==
    {[net |-> "error", status |-> 0,   applied |-> FALSE],
     [net |-> "ok",    status |-> 503, applied |-> FALSE]} \cup
    (IF StoreAccepts(file, sent_sha)
     THEN {[net |-> "ok",    status |-> (IF file = NoFile THEN 201 ELSE 200),
            applied |-> TRUE],
           [net |-> "error", status |-> 0, applied |-> TRUE]}
     ELSE {[net |-> "ok",    status |-> (IF sent_sha = None THEN 422 ELSE 409),
            applied |-> FALSE]})

Pushers == {"p1", "p2", "p3"}

PLog(p, events) == [p_log EXCEPT ![p] = @ \o events]

\* Mutant of PFinish: a failed write sends the request back to its
\* preflight read.
PFinishRetrying(p, result) ==
    /\ p_pc' = [p_pc EXCEPT ![p] =
                   IF p_pc[p] = "write" /\ result.status # 200
                   THEN "preflight" ELSE "done"]
    /\ p_result' = [p_result EXCEPT ![p] = result]

PFinish(p, result) ==
    /\ p_pc' = [p_pc EXCEPT ![p] = "done"]
    /\ p_result' = [p_result EXCEPT ![p] = result]

Identity(p) == _extract_record_info(p_doc[p])

PathOf(p) == StorePath(Identity(p).category, Identity(p).record_id)

\* Mutant of ConfigMissing: the configuration check left out.
ConfigNeverMissing(e) == FALSE

\* not all([GITHUB_TOKEN, GITHUB_OWNER, GITHUB_REPO]); owner and repository
\* are non-empty literals of the module.
ConfigMissing(e) == ~e.GITHUB_TOKEN

\* githubpush up to the preflight read: the empty-body check, the
\* configuration check, the identity of the record, client.get sent.
PushBegin(p, rdf_text) ==
    /\ p_pc[p] = "idle"
    /\ p_doc' = [p_doc EXCEPT ![p] = rdf_text]
    /\ p_before' = [p_before EXCEPT ![p] = {q \in Pushers : p_pc[q] = "done"}]
    /\ IF rdf_text.blank
       THEN /\ PFinish(p, HTTPError(400, "Empty RDF body received."))
            /\ UNCHANGED p_log
       ELSE IF ConfigMissing(env)
       THEN /\ PFinish(p, HTTPError(500, "GitHub credentials or configuration missing."))
            /\ UNCHANGED p_log
       ELSE LET info == _extract_record_info(rdf_text) IN
            IF ~info.ok
            THEN /\ PFinish(p, info.error)
                 /\ UNCHANGED p_log
            ELSE /\ p_pc' = [p_pc EXCEPT ![p] = "preflight"]
                 /\ p_log' = PLog(p, <<[e |-> "get",
                       path |-> StorePath(info.category, info.record_id)]>>)
                 /\ UNCHANGED p_result
    /\ UNCHANGED <<env, files, p_sha, sub_vars, san_vars>>

\* Mutant of SentSha: the sha left out of the write.
SentShaNever(sha) == None

\* The write's sha entry: **({"sha": sha} if sha else {})
SentSha(sha) == IF Truthy(sha) THEN sha ELSE None

\* Mutant of PreflightFailed: every status but 200 taken as "not found".
PreflightNeverFailed(status) == FALSE

\* pre.status_code is neither 200 nor 404: raise HTTPException(500, ...)
PreflightFailed(status) == status # 200 /\ status # 404

\* The answer to the preflight read; on 200 or 404 client.put is sent.
Preflight(p) ==
    /\ p_pc[p] = "preflight"
    /\ \E pre \in GetResponses(files[PathOf(p)]) :
          LET seen == [e |-> "got", status |-> pre.status,
                       held |-> files[PathOf(p)]] IN
          IF pre.net # "ok"
          THEN /\ PFinish(p, HTTPError(500, "GitHub request failed"))
               /\ p_log' = PLog(p, <<seen>>)
               /\ UNCHANGED p_sha
          ELSE IF PreflightFailed(pre.status)
          THEN /\ PFinish(p, HTTPError(500, "Unexpected error during GitHub commit"))
               /\ p_log' = PLog(p, <<seen>>)
               /\ UNCHANGED p_sha
          ELSE /\ p_sha' = [p_sha EXCEPT ![p] =
                               IF pre.status = 200 THEN pre.sha ELSE None]
               /\ p_log' = PLog(p, <<seen,
                     [e |-> "put", path |-> PathOf(p), sha |-> SentSha(p_sha'[p]),
                      content |-> Content(p_doc[p].text)]>>)
               /\ p_pc' = [p_pc EXCEPT ![p] = "write"]
               /\ UNCHANGED p_result
    /\ UNCHANGED <<env, files, p_doc, p_before, sub_vars, san_vars>>

\* Mutant of WriteFailed: put.raise_for_status() left out.
WriteFailedOnTransportOnly(put) == put.net # "ok"

\* client.put raised, or put.raise_for_status() did.
WriteFailed(put) == put.net # "ok" \/ ~Is2xx(put.status)

\* Mutant of Action: the result always says "create".
ActionAlwaysCreate(sha) == "create"

\* "update" if sha else "create"
Action(sha) == IF Truthy(sha) THEN "update" ELSE "create"

\* The store handles the write, and the handler returns.
Write(p) ==
    /\ p_pc[p] = "write"
    /\ LET held == files[PathOf(p)]
           sent == p_log[p][Len(p_log[p])]
       IN  \E put \in PutOutcomes(held, sent.sha) :
              /\ files' = IF put.applied
                          THEN [files EXCEPT ![sent.path] = sent.content]
                          ELSE files
              /\ p_log' = PLog(p, <<[e |-> "written", status |-> put.status,
                                     held |-> held, applied |-> put.applied]>>)
              /\ IF WriteFailed(put)
                 THEN PFinish(p, HTTPError(500, "GitHub request failed"))
                 ELSE PFinish(p, [kind |-> "response", status |-> 200,
                                  message |-> "success",
                                  action |-> Action(p_sha[p]),
                                  record_id |-> Identity(p).record_id,
                                  category |-> Identity(p).category])
    /\ UNCHANGED <<env, p_doc, p_sha, p_before, sub_vars, san_vars>>

(* The documents pushed.                                                   *)
Survey123 ==
    Uri("https", "example.org",
        <<<<>>, <<"records">>, <<"survey">>, <<"item123", ".ttl">>>>)

Survey123Elsewhere ==
    Uri("http", "other.org", <<<<>>, <<"survey">>, <<"item123", ".TTL">>>>)

Tools9 ==
    Uri("https", "example.org", <<<<>>, <<"records">>, <<"tools">>, <<"item9">>>>)

TooShort == Uri("https", "example.org", <<<<>>, <<"item1", ".ttl">>>>)

ValidDocs ==
    {Doc("a1", FALSE, TRUE, <<Survey123>>),
     Doc("a2", FALSE, TRUE, <<Survey123>>),
     Doc("b1", FALSE, TRUE, <<BNode, Survey123Elsewhere>>),
     Doc("c1", FALSE, TRUE, <<Tools9>>)}

InvalidDocs ==
    {Doc("", TRUE, FALSE, <<>>),            \* empty or whitespace only
     Doc("x1", FALSE, FALSE, <<>>),         \* not Turtle
     Doc("x2", FALSE, TRUE, <<>>),          \* no dcterms:identifier triple
     Doc("x3", FALSE, TRUE, <<BNode>>),     \* identifier on a blank node only
     Doc("x4", FALSE, TRUE, <<TooShort>>)}  \* one path segment

Docs == ValidDocs \cup InvalidDocs

\* The documents of the requests that race for one file.
SameFileDocs ==
    {Doc("a1", FALSE, TRUE, <<Survey123>>),
     Doc("a2", FALSE, TRUE, <<Survey123>>)}

Paths ==
    {StorePath(_extract_record_info(d).category, _extract_record_info(d).record_id) :
        d \in ValidDocs}

NoDoc == Doc("", TRUE, FALSE, <<>>)

PushIdle ==
    /\ p_pc = [p \in Pushers |-> "idle"]
    /\ p_doc = [p \in Pushers |-> NoDoc]
    /\ p_sha = [p \in Pushers |-> None]
    /\ p_result = [p \in Pushers |-> NoResult]
    /\ p_log = [p \in Pushers |-> <<>>]
    /\ p_before = [p \in Pushers |-> {}]

NoFiles == files = [path \in Paths |-> NoFile]

(***************************************************************************)
(* Flow B: submit_record.                                                  *)
(***************************************************************************)
Submitters == {"r1", "r2"}

HasKey(d, k) == k \in DOMAIN d.v

\* dict.get(k, default)
Get(d, k, default) == IF HasKey(d, k) THEN d.v[k] ELSE default

\* d[k] = val
DictSet(d, k, val) ==
    Map([x \in DOMAIN d.v \cup {k} |-> IF x = k THEN val ELSE d.v[x]])

\* record = body_dict.get("fairsharing_record", {})
RecordOf(body_dict) == Get(body_dict, "fairsharing_record", EmptyDict)

\* "<key>" in record and isinstance(record["<key>"], list)
HasList(record, key) == HasKey(record, key) /\ record.v[key].t = "list"

ListOf(record, key) == IF HasList(record, key) THEN record.v[key].v ELSE <<>>

KeyOf(kind) == IF kind = "subject" THEN "subject_ids" ELSE "domain_ids"

(* The registry's query endpoint: the answers it can give to one search.   *)
SubjectURIs == {"http://x/1", "http://x/2"}

DomainURIs == {"http://d/1"}

RegistryId(iri) ==
    CASE iri = "http://x/1" -> 101
      [] iri = "http://x/2" -> 102
      [] OTHER -> 201

QueryResponses(iri) ==
    {[net |-> "error", status |-> 0,   parses |-> FALSE, results |-> <<>>],
     [net |-> "ok",    status |-> 500, parses |-> TRUE,  results |-> <<>>],
     [net |-> "ok",    status |-> 200, parses |-> FALSE, results |-> <<>>],
     [net |-> "ok",    status |-> 200, parses |-> TRUE,  results |-> <<>>],
     [net |-> "ok",    status |-> 200, parses |-> TRUE,  results |-> <<None>>],
     [net |-> "ok",    status |-> 200, parses |-> TRUE,
      results |-> <<Num(RegistryId(iri))>>]}

\* A query that did not end in a parsed answer of success status.
QueryFailed(resp) == resp.net # "ok" \/ ~Is2xx(resp.status) \/ ~resp.parses

\* Mutant of fetch_internal_id: the try/except left out, so a failed query
\* raises instead of returning None.
fetch_internal_id_raising(resp) ==
    IF resp.net # "ok" \/ ~Is2xx(resp.status) \/ ~resp.parses
    THEN [raised |-> TRUE, id |-> None]
    ELSE IF resp.results # <<>> /\ Truthy(resp.results[1])
    THEN [raised |-> FALSE, id |-> resp.results[1]]
    ELSE [raised |-> FALSE, id |-> None]

\* fetch_internal_id, given the answer to its query: what it returns, and
\* whether an exception leaves it.
fetch_internal_id(resp) ==
    IF resp.net # "ok"              \* client.post raised
    THEN [raised |-> FALSE, id |-> None]
    ELSE IF ~Is2xx(resp.status)     \* raise_for_status raised
    THEN [raised |-> FALSE, id |-> None]
    ELSE IF ~resp.parses            \* resp.json() / .get raised
    THEN [raised |-> FALSE, id |-> None]
    ELSE IF resp.results # <<>> /\ Truthy(resp.results[1])
    THEN [raised |-> FALSE, id |-> resp.results[1]]
    ELSE [raised |-> FALSE, id |-> None]

\* Mutant of Resolved: the id is put in front.
ResolvedPrepending(acc, iri, internal_id) ==
    IF internal_id # None THEN <<internal_id>> \o acc ELSE acc

\* if internal_id is not None: resolved.append(internal_id)
Resolved(acc, iri, internal_id) ==
    IF internal_id # None THEN Append(acc, internal_id) ELSE acc

SubIdle ==
    /\ s_pc = [r \in Submitters |-> "idle"]
    /\ s_in = [r \in Submitters |-> EmptyDict]
    /\ s_body = [r \in Submitters |-> EmptyDict]
    /\ s_idx = [r \in Submitters |-> 0]
    /\ s_acc = [r \in Submitters |-> <<>>]
    /\ s_token = [r \in Submitters |-> None]
    /\ s_result = [r \in Submitters |-> NoResult]
    /\ s_log = [r \in Submitters |-> <<>>]
    /\ issued = 0

\* A session token of the registry; n tells the tokens apart.
Jwt(n) == [t |-> "jwt", v |-> n]

\* What the auth endpoint can answer when n tokens were issued before.
AuthResponses(n) ==
    {[net |-> "error", status |-> 0,   parses |-> FALSE, jwt |-> None],
     [net |-> "ok",    status |-> 401, parses |-> TRUE,  jwt |-> None],
     [net |-> "ok",    status |-> 200, parses |-> FALSE, jwt |-> None],
     [net |-> "ok",    status |-> 200, parses |-> TRUE,  jwt |-> None],
     [net |-> "ok",    status |-> 200, parses |-> TRUE,  jwt |-> Str("")],
     [net |-> "ok",    status |-> 200, parses |-> TRUE,  jwt |-> Jwt(n + 1)]}

\* What the data endpoint can answer.
DataResponses ==
    {[net |-> "error", status |-> 0,   parses |-> FALSE],
     [net |-> "ok",    status |-> 422, parses |-> TRUE],
     [net |-> "ok",    status |-> 201, parses |-> FALSE],
     [net |-> "ok",    status |-> 201, parses |-> TRUE]}

Log(r, event) == [s_log EXCEPT ![r] = Append(@, event)]

Finish(r, result) ==
    /\ s_pc' = [s_pc EXCEPT ![r] = "done"]
    /\ s_result' = [s_result EXCEPT ![r] = result]

\* body_dict = body.model_dump(mode="json"); resolve_subject_domain_ids
\* opens its client and reaches the subjects loop.
SubmitBegin(r, body) ==
    /\ s_pc[r] = "idle"
    /\ s_pc' = [s_pc EXCEPT ![r] = "subjects"]
    /\ s_in' = [s_in EXCEPT ![r] = body]
    /\ s_body' = [s_body EXCEPT ![r] = body]
    /\ s_idx' = [s_idx EXCEPT ![r] = 1]
    /\ s_acc' = [s_acc EXCEPT ![r] = <<>>]
    /\ UNCHANGED <<env, push_vars, s_token, s_result, s_log, issued, san_vars>>

\* One turn of a "for iri in record[...]" loop: the query and its answer.
Query(r, kind) ==
    /\ s_pc[r] = (IF kind = "subject" THEN "subjects" ELSE "domains")
    /\ LET ids == ListOf(RecordOf(s_body[r]), KeyOf(kind)) IN
       /\ s_idx[r] <= Len(ids)
       /\ LET iri == ids[s_idx[r]].v IN
          \E resp \in QueryResponses(iri) :
             LET out == fetch_internal_id(resp) IN
             /\ s_log' = Log(r, [e |-> "query", kind |-> kind, iri |-> iri,
                                 failed |-> QueryFailed(resp), got |-> out.id])
             /\ IF out.raised
                THEN /\ Finish(r, Unhandled("query"))
                     /\ UNCHANGED <<s_idx, s_acc>>
                ELSE /\ s_acc' = [s_acc EXCEPT ![r] = Resolved(@, iri, out.id)]
                     /\ s_idx' = [s_idx EXCEPT ![r] = @ + 1]
                     /\ UNCHANGED <<s_pc, s_result>>
    /\ UNCHANGED <<env, push_vars, s_in, s_body, s_token, issued, san_vars>>

QuerySubject(r) == Query(r, "subject")

QueryDomain(r) == Query(r, "domain")

\* The body after "record[key] = resolved" (nothing when there is no list).
Stored(body_dict, key, acc) ==
    IF HasList(RecordOf(body_dict), key)
    THEN DictSet(body_dict, "fairsharing_record",
                 DictSet(RecordOf(body_dict), key, List(acc)))
    ELSE body_dict

\* record["subject_ids"] = resolved_subjects, then on to the domains.
SubjectsDone(r) ==
    /\ s_pc[r] = "subjects"
    /\ s_idx[r] > Len(ListOf(RecordOf(s_body[r]), "subject_ids"))
    /\ s_body' = [s_body EXCEPT ![r] = Stored(@, "subject_ids", s_acc[r])]
    /\ s_pc' = [s_pc EXCEPT ![r] = "domains"]
    /\ s_idx' = [s_idx EXCEPT ![r] = 1]
    /\ s_acc' = [s_acc EXCEPT ![r] = <<>>]
    /\ UNCHANGED <<env, push_vars, s_in, s_token, s_result, s_log, issued, san_vars>>

\* Mutant of Prepared: sanitized before the resolved domains are stored.
PreparedSanitizedFirst(body_dict, acc) ==
    Stored(remove_empty(DictSet(body_dict, "fairsharing_record",
                                RecordOf(body_dict))), "domain_ids", acc)

\* The body the handler holds after lines 239-241 and 260.
Prepared(body_dict, acc) ==
    LET stored == Stored(body_dict, "domain_ids", acc)
    IN  remove_empty(DictSet(stored, "fairsharing_record", RecordOf(stored)))

\* record["domain_ids"] = resolved_domains; body_dict = remove_empty(...);
\* the authentication call is sent.
DomainsDone(r) ==
    /\ s_pc[r] = "domains"
    /\ s_idx[r] > Len(ListOf(RecordOf(s_body[r]), "domain_ids"))
    /\ s_body' = [s_body EXCEPT ![r] = Prepared(@, s_acc[r])]
    /\ IF env.AUTH_URL
       THEN /\ s_log' = [s_log EXCEPT ![r] = @ \o <<[e |-> "sanitize"], [e |-> "auth"]>>]
            /\ s_pc' = [s_pc EXCEPT ![r] = "auth"]
            /\ UNCHANGED s_result
       ELSE /\ s_log' = Log(r, [e |-> "sanitize"])
            /\ Finish(r, Unhandled("TypeError"))    \* client.post(None, ...)
    /\ UNCHANGED <<env, push_vars, s_in, s_idx, s_acc, s_token, issued, san_vars>>

\* Mutant of TokenUsable: the "if not token" check left out.
TokenAlwaysUsable(token) == TRUE

\* if not token: raise HTTPException(500, "Missing jwt token")
TokenUsable(token) == Truthy(token)

\* The answer to the authentication call; on a token, the data post is sent.
Authenticate(r) ==
    /\ s_pc[r] = "auth"
    /\ \E resp \in AuthResponses(issued) :
          LET reply == [e |-> "auth_reply", net |-> resp.net,
                        status |-> resp.status, parses |-> resp.parses,
                        jwt |-> resp.jwt] IN
          /\ issued' = IF resp.jwt.t = "jwt" THEN issued + 1 ELSE issued
          /\ IF resp.net # "ok"
             THEN /\ Finish(r, Unhandled("httpx.TransportError"))
                  /\ s_log' = Log(r, reply)
                  /\ UNCHANGED s_token
             ELSE IF ~Is2xx(resp.status)          \* auth.raise_for_status()
             THEN /\ Finish(r, Unhandled("httpx.HTTPStatusError"))
                  /\ s_log' = Log(r, reply)
                  /\ UNCHANGED s_token
             ELSE IF ~resp.parses                 \* auth.json()
             THEN /\ Finish(r, Unhandled("JSONDecodeError"))
                  /\ s_log' = Log(r, reply)
                  /\ UNCHANGED s_token
             ELSE /\ s_token' = [s_token EXCEPT ![r] = resp.jwt]
                  /\ IF ~TokenUsable(resp.jwt)
                     THEN /\ Finish(r, HTTPError(500, "Missing jwt token"))
                          /\ s_log' = Log(r, reply)
                     ELSE IF ~env.DATA_URL        \* client.post(None, ...)
                     THEN /\ Finish(r, Unhandled("TypeError"))
                          /\ s_log' = Log(r, reply)
                     ELSE /\ s_pc' = [s_pc EXCEPT ![r] = "post"]
                          /\ s_log' = [s_log EXCEPT ![r] = @ \o
                                <<reply,
                                  [e |-> "post", bearer |-> s_token'[r],
                                   payload |-> s_body[r]]>>]
                          /\ UNCHANGED s_result
    /\ UNCHANGED <<env, push_vars, s_in, s_body, s_idx, s_acc, san_vars>>

\* The answer to the data post, and the handler's return.
Post(r) ==
    /\ s_pc[r] = "post"
    /\ \E resp \in DataResponses :
          /\ s_log' = Log(r, [e |-> "post_reply", net |-> resp.net,
                              status |-> resp.status, parses |-> resp.parses])
          /\ IF resp.net # "ok"
             THEN Finish(r, Unhandled("httpx.TransportError"))
             ELSE IF ~Is2xx(resp.status)          \* data_response.raise_for_status()
             THEN Finish(r, Unhandled("httpx.HTTPStatusError"))
             ELSE IF ~resp.parses                 \* data_response.json()
             THEN Finish(r, Unhandled("JSONDecodeError"))
             ELSE Finish(r, [kind |-> "response", status |-> 200,
                             message |-> "success",
                             data_status_code |-> resp.status])
    /\ UNCHANGED <<env, push_vars, s_in, s_body, s_idx, s_acc, s_token, issued, san_vars>>

(* Request bodies: fairsharing_record with a name and, each optional, the  *)
(* two identifier lists.                                                   *)
MaxSubjects == 2

MaxDomains == 1

Absent == [t |-> "absent"]

MkBody(name, subj, dom) ==
    LET fields == {"name"} \cup (IF subj = Absent THEN {} ELSE {"subject_ids"})
                           \cup (IF dom = Absent THEN {} ELSE {"domain_ids"})
    IN  Map([k \in {"fairsharing_record"} |->
            Map([f \in fields |-> CASE f = "name" -> name
                                    [] f = "subject_ids" -> subj
                                    [] OTHER -> dom])])

SubjectChoices ==
    {Absent, Null} \cup
    {List(l) : l \in SeqsUpTo({Str(u) : u \in SubjectURIs}, MaxSubjects)}

DomainChoices ==
    {Absent} \cup
    {List(l) : l \in SeqsUpTo({Str(u) : u \in DomainURIs}, MaxDomains)}

Bodies ==
    {MkBody(n, sj, dm) : n \in {Str("n"), Str("")}, sj \in SubjectChoices,
                         dm \in DomainChoices}

\* The bodies of the requests that run side by side.
FewBodies ==
    {MkBody(Str("n"), List(<<Str("http://x/1"), Str("http://x/2")>>), Absent),
     MkBody(Str(""), List(<<Str("http://x/1")>>), List(<<Str("http://d/1")>>))}

\* One submission, every body.
SubmitInit ==
    /\ env \in Configs(BOOLEAN, BOOLEAN, {TRUE})
    /\ NoFiles
    /\ PushIdle
    /\ SubIdle
    /\ SanIdle

SubmitNext ==
    \/ s_pc["r1"] = "idle" /\ \E body \in Bodies : SubmitBegin("r1", body)
    \/ QuerySubject("r1")
    \/ SubjectsDone("r1")
    \/ QueryDomain("r1")
    \/ DomainsDone("r1")
    \/ Authenticate("r1")
    \/ Post("r1")

SubmitSpec == SubmitInit /\ [][SubmitNext]_vars

\* Submissions side by side.
ConcInit ==
    /\ env \in Configs({TRUE}, {TRUE}, {TRUE})
    /\ NoFiles
    /\ PushIdle
    /\ SubIdle
    /\ SanIdle

ConcNext ==
    \E r \in Submitters :
        \/ s_pc[r] = "idle" /\ \E body \in FewBodies : SubmitBegin(r, body)
        \/ QuerySubject(r)
        \/ SubjectsDone(r)
        \/ QueryDomain(r)
        \/ DomainsDone(r)
        \/ Authenticate(r)
        \/ Post(r)

ConcSubmitSpec == ConcInit /\ [][ConcNext]_vars

(***************************************************************************)
(* Specifications of flow A.                                               *)
(***************************************************************************)
\* Two requests, every document, the token set or not.
Init ==
    /\ env \in Configs({TRUE}, {TRUE}, BOOLEAN)
    /\ files \in [Paths -> {NoFile, Content("old")}]
    /\ PushIdle
    /\ SubIdle
    /\ SanIdle

Next ==
    \E p \in {"p1", "p2"} :
        \/ p_pc[p] = "idle" /\ \E rdf_text \in Docs : PushBegin(p, rdf_text)
        \/ Preflight(p)
        \/ Write(p)

Spec == Init /\ [][Next]_vars

\* Three requests racing for one file.
RaceInit ==
    /\ env \in Configs({TRUE}, {TRUE}, {TRUE})
    /\ files \in [Paths -> {NoFile}] \cup
                 {[path \in Paths |-> IF path = <<<<"survey">>, <<"item123", ".ttl">>>>
                                      THEN Content("a1") ELSE NoFile]}
    /\ PushIdle
    /\ SubIdle
    /\ SanIdle

RaceNext ==
    \E p \in Pushers :
        \/ p_pc[p] = "idle" /\ \E rdf_text \in SameFileDocs : PushBegin(p, rdf_text)
        \/ Preflight(p)
        \/ Write(p)

RaceSpec == RaceInit /\ [][RaceNext]_vars

(***************************************************************************)
(* Properties of flow A.                                                   *)
(***************************************************************************)
\* Positions of the events of one sort in the log of p.
PAt(p, e) == {i \in 1..Len(p_log[p]) : p_log[p][i].e = e}

\* The event of one sort in the log of p (there is at most one of each).
PEvent(p, e) == p_log[p][CHOOSE i \in PAt(p, e) : TRUE]

PSucceeded(p) ==
    /\ p_result[p].kind = "response"
    /\ p_result[p].status = 200

PFailed500(p) ==
    /\ p_result[p].kind = "response"
    /\ p_result[p].status = 500

\* A write of a request other than p and q was applied to the path.
OtherWriter(p, q, path) ==
    \E o \in Pushers \ {p, q} :
        /\ PAt(o, "written") # {}
        /\ PEvent(o, "written").applied
        /\ PEvent(o, "put").path = path

\* q pushes, after p has returned, the content p has created.
PushedTwice(p, q) ==
    /\ p # q
    /\ p \in p_before[q]
    /\ p_doc[q] = p_doc[p]
    /\ PSucceeded(p)
    /\ PEvent(p, "got").held = NoFile
    /\ ~OtherWriter(p, q, PEvent(p, "put").path)

\* C1: of two sequential pushes of the same content for a file the store
\* does not hold, the first reports "create" and writes without a hash,
\* the second writes with the hash the file got by the first write and
\* reports "update".
C1_CreateThenUpdate ==
    \A p, q \in Pushers :
        PushedTwice(p, q) =>
            /\ p_result[p].action = "create"
            /\ PEvent(p, "put").sha = None
            /\ PAt(q, "got") # {} =>
                  PEvent(q, "got").held = PEvent(p, "put").content
            /\ PAt(q, "put") # {} =>
                  /\ PEvent(q, "put").sha = ShaOf(PEvent(p, "put").content)
                  /\ PEvent(q, "put").sha # None
            /\ PSucceeded(q) => p_result[q].action = "update"

\* C1 witness: both pushes have succeeded.
C1_Witness ==
    /\ PushedTwice("p1", "p2")
    /\ PSucceeded("p2")
    /\ p_result["p2"].action = "update"

\* C2: however pushes to one path interleave, a push reports success only
\* if the store held at its write what it held at its preflight read
\* (the same hash, or nothing both times); a push whose observation no
\* longer holds at its write ends with a 500 error without having changed
\* the file, and no push writes twice.
C2_OptimisticWrite ==
    \A p \in Pushers :
        /\ Cardinality(PAt(p, "get")) <= 1
        /\ Cardinality(PAt(p, "put")) <= 1
        /\ PAt(p, "written") # {} =>
              LET seen == PEvent(p, "got").held
                  hit  == PEvent(p, "written")
              IN  /\ PEvent(p, "put").sha = ShaOf(seen)
                  /\ PSucceeded(p) => (ShaOf(hit.held) = ShaOf(seen) /\ hit.applied)
                  /\ ShaOf(hit.held) # ShaOf(seen) =>
                        (PFailed500(p) /\ ~hit.applied)
                  /\ p_log[p][Len(p_log[p])].e = "written"
                  /\ p_pc[p] = "done"
        /\ PSucceeded(p) => PAt(p, "written") # {}

\* C2 witness: p1 read the file, two others replaced it, p1's write was
\* turned down.
C2_Witness ==
    /\ PFailed500("p1")
    /\ PAt("p1", "written") # {}
    /\ PEvent("p1", "written").status = 409
    /\ PSucceeded("p2")
    /\ PSucceeded("p3")
    /\ "p1" \notin p_before["p2"] \cup p_before["p3"]

\* The input of a push fails validation: the body is blank, is not
\* Turtle, has no identifier triple on a URI subject, or the path of that
\* subject has fewer than two non-empty segments.
FailsValidation(d) ==
    \/ d.blank
    \/ ~d.parses
    \/ \A i \in 1..Len(d.subjects) : ~d.subjects[i].isuri
    \/ \E i \in 1..Len(d.subjects) :
          /\ d.subjects[i].isuri
          /\ \A j \in 1..(i - 1) : ~d.subjects[j].isuri
          /\ Cardinality({k \in 1..Len(d.subjects[i].path) :
                             d.subjects[i].path[k] # <<>>}) < 2

\* C11: every push whose input fails validation ends with a 400 error and
\* has made no call to the store (no preflight read, no write).
C11_InvalidPushIs400 ==
    \A p \in Pushers :
        (p_pc[p] # "idle" /\ FailsValidation(p_doc[p])) =>
            /\ p_pc[p] = "done"
            /\ p_result[p].kind = "response"
            /\ p_result[p].status = 400
            /\ p_log[p] = <<>>

\* C12: a commit begun while the store's access token is absent ends with
\* the 500 configuration error and has made no call to the store.
C12_ConfigErrorBeforeNetwork ==
    \A p \in Pushers :
        (p_pc[p] # "idle" /\ ~p_doc[p].blank /\ ~env.GITHUB_TOKEN) =>
            /\ p_pc[p] = "done"
            /\ PFailed500(p)
            /\ p_result[p].message = "GitHub credentials or configuration missing."
            /\ p_log[p] = <<>>
            /\ \A path \in DOMAIN files : files[path] \in {NoFile, Content("old")}

\* C12 witness: a well-formed record pushed without the token.
C12_Witness ==
    /\ ~env.GITHUB_TOKEN
    /\ p_pc["p1"] = "done"
    /\ ~FailsValidation(p_doc["p1"])
    /\ PFailed500("p1")
    /\ p_log["p1"] = <<>>

\* The positions of the URI subjects among the identifier triples of d.
UriSubjects(d) == {i \in 1..Len(d.subjects) : d.subjects[i].isuri}

\* The spellings of the suffix that occur in the documents.
TtlSpellings == {".ttl", ".TTL", ".Ttl"}

\* d has a single identifier-bearing URI subject, whose path ends in two
\* non-empty segments, the last with a .ttl suffix in some letter case.
EndsInCatIdTtl(d) ==
    /\ ~d.blank
    /\ d.parses
    /\ Cardinality(UriSubjects(d)) = 1
    /\ LET u == d.subjects[CHOOSE i \in UriSubjects(d) : TRUE]
           n == Len(u.path)
       IN  /\ n >= 2
           /\ u.path[n - 1] # <<>>
           /\ Len(u.path[n]) >= 1
           /\ u.path[n][Len(u.path[n])] \in TtlSpellings

\* C14: for a record whose single identifier-bearing subject URI ends in
\* .../{cat}/{id}.ttl (suffix in any letter case) the identity extracted
\* is record id = id, category = cat and the URI itself, and the preflight
\* read and the write of the push both address the path {cat}/{id}.ttl.
C14_IdentityAndPath ==
    \A p \in Pushers :
        (p_pc[p] # "idle" /\ EndsInCatIdTtl(p_doc[p])) =>
            LET d == p_doc[p]
                u == d.subjects[CHOOSE i \in UriSubjects(d) : TRUE]
                n == Len(u.path)
                cat == u.path[n - 1]
                id == SubSeq(u.path[n], 1, Len(u.path[n]) - 1)
                target == <<cat, id \o <<".ttl">>>>
            IN  /\ _extract_record_info(d) =
                      [ok |-> TRUE, record_id |-> id, category |-> cat,
                       uri_candidate |-> u]
                /\ \A i \in PAt(p, "get") \cup PAt(p, "put") :
                      p_log[p][i].path = target
                /\ env.GITHUB_TOKEN => PAt(p, "get") # {}
                /\ (p_pc[p] = "write" \/ PSucceeded(p)) => PAt(p, "put") # {}
                /\ \A i \in PAt(p, "written") :
                      p_log[p][i].applied =>
                          \E q \in Pushers :
                              /\ PAt(q, "put") # {}
                              /\ files[target] = PEvent(q, "put").content

\* C14 witness: a record named .../survey/item123.TTL, after a blank node
\* that also bears an identifier, written to survey/item123.ttl.
C14_Witness ==
    /\ PSucceeded("p1")
    /\ p_doc["p1"].text = "b1"
    /\ p_result["p1"].record_id = <<"item123">>
    /\ p_result["p1"].category = <<"survey">>
    /\ PEvent("p1", "get").path = <<<<"survey">>, <<"item123", ".ttl">>>>
    /\ PEvent("p1", "put").path = <<<<"survey">>, <<"item123", ".ttl">>>>
    /\ files[<<<<"survey">>, <<"item123", ".ttl">>>>] = Content("b1")

\* C15: a preflight read answered 200 makes the commit an update: the
\* write that follows carries the hash of the file as read, and a
\* successful result says "update"; a write without hash and a result
\* saying "create" occur only after a preflight read answered 404.
C15_FoundMeansUpdate ==
    \A p \in Pushers :
        \A i \in PAt(p, "got") :
            LET pre == p_log[p][i] IN
            /\ pre.status = 200 =>
                  /\ pre.held # NoFile
                  /\ Len(p_log[p]) > i
                  /\ p_log[p][i + 1].e = "put"
                  /\ p_log[p][i + 1].sha = ShaOf(pre.held)
                  /\ p_log[p][i + 1].sha # None
                  /\ PSucceeded(p) => p_result[p].action = "update"
            /\ (\E j \in PAt(p, "put") : p_log[p][j].sha = None) =>
                  pre.status = 404
            /\ (PSucceeded(p) /\ p_result[p].action = "create") =>
                  pre.status = 404
            /\ pre.status = 404 =>
                  /\ p_log[p][i + 1].sha = None
                  /\ PSucceeded(p) => p_result[p].action = "create"

\* C15 witness: one push has updated a file the store held, another has
\* created the other file.
C15_Witness ==
    /\ PSucceeded("p1")
    /\ PEvent("p1", "got").status = 200
    /\ PEvent("p1", "got").held = Content("old")
    /\ PEvent("p1", "put").sha = ShaOf(Content("old"))
    /\ p_result["p1"].action = "update"
    /\ PSucceeded("p2")
    /\ PEvent("p2", "got").status = 404
    /\ p_result["p2"].action = "create"

\* C16: a preflight read answered with a status other than 200 and 404
\* ends the push with a 500 error, and no write is sent to the store.
C16_PreflightFailureStops ==
    \A p \in Pushers :
        \A i \in PAt(p, "got") :
            p_log[p][i].status \notin {200, 404} =>
                /\ p_pc[p] = "done"
                /\ PFailed500(p)
                /\ PAt(p, "put") = {}
                /\ PAt(p, "written") = {}
                /\ i = Len(p_log[p])

\* C16 witness: the store answered 500 to the preflight read of a file it
\* holds, and the file is as it was.
C16_Witness ==
    /\ PAt("p1", "got") # {}
    /\ PEvent("p1", "got").status = 500
    /\ PEvent("p1", "got").held = Content("old")
    /\ PFailed500("p1")
    /\ files[PEvent("p1", "get").path] = Content("old")

\* The store calls of p so far: one read at most, one write at most, the
\* write after an answered read, and the answer to the write last.
SingleAttempt(p) ==
    /\ Cardinality(PAt(p, "get")) <= 1
    /\ Cardinality(PAt(p, "got")) <= 1
    /\ Cardinality(PAt(p, "put")) <= 1
    /\ Cardinality(PAt(p, "written")) <= 1
    /\ \A j \in PAt(p, "put") :
          \E i \in PAt(p, "got") :
              /\ i < j
              /\ p_log[p][i].status \in {200, 404}
              /\ \A g \in PAt(p, "get") : g < i
    /\ \A k \in PAt(p, "written") :
          /\ k = Len(p_log[p])
          /\ \A j \in PAt(p, "put") : j < k
          /\ p_pc[p] = "done"

\* C17: the store client never retries: a push reads at most once and
\* writes at most once, the write only after the read was answered, and
\* once the push has ended (a failed write included) it makes no further
\* store call.
C17_NoRetry ==
    /\ [](\A p \in Pushers : SingleAttempt(p))
    /\ [][\A p \in Pushers :
             p_pc[p] = "done" => (p_pc'[p] = "done" /\ p_log'[p] = p_log[p])]_vars

\* C17 witness: a write the store turned down for a stale hash, with
\* nothing after it.
C17_Witness ==
    /\ p_pc["p1"] = "done"
    /\ PFailed500("p1")
    /\ PAt("p1", "written") # {}
    /\ PEvent("p1", "written").status = 409
    /\ Len(p_log["p1"]) = 4

\* The last two non-empty path segments of the subject URI of a valid
\* document, the last one without its .ttl suffix.
PathTail(d) ==
    LET u == d.subjects[CHOOSE i \in UriSubjects(d) :
                            \A j \in UriSubjects(d) : i <= j]
        at == {k \in 1..Len(u.path) : u.path[k] # <<>>}
        z == CHOOSE k \in at : \A m \in at : m <= k
        y == CHOOSE k \in at \ {z} : \A m \in at \ {z} : m <= k
        last == u.path[z]
    IN  <<u.path[y],
          IF last[Len(last)] \in TtlSpellings
          THEN SubSeq(last, 1, Len(last) - 1) ELSE last>>

\* p and q push valid documents whose subject URIs agree on those segments.
SameTail(p, q) ==
    /\ p # q
    /\ p_pc[p] # "idle"
    /\ p_pc[q] # "idle"
    /\ ~FailsValidation(p_doc[p])
    /\ ~FailsValidation(p_doc[q])
    /\ PathTail(p_doc[p]) = PathTail(p_doc[q])

\* C18: two pushes whose subject URIs agree on the last two non-empty path
\* segments (the .ttl suffix aside), whatever their scheme, host, earlier
\* segments and suffix case, address the same file of the store; pushed
\* after the first has succeeded, the second finds the first's content,
\* writes with its hash, and on success is an update that replaces it.
C18_PathFromLastTwoSegments ==
    \A p, q \in {"p1", "p2"} :
        SameTail(p, q) =>
            /\ \A i \in PAt(p, "get") \cup PAt(p, "put") :
                  \A j \in PAt(q, "get") \cup PAt(q, "put") :
                      p_log[p][i].path = p_log[q][j].path
            /\ (p \in p_before[q] /\ PSucceeded(p)) =>
                  /\ \A j \in PAt(q, "got") :
                        /\ p_log[q][j].held = Content(p_doc[p].text)
                        /\ p_log[q][j].status # 404
                  /\ \A j \in PAt(q, "put") :
                        p_log[q][j].sha = ShaOf(Content(p_doc[p].text))
                  /\ PSucceeded(q) =>
                        /\ p_result[q].action = "update"
                        /\ files[PEvent(q, "put").path] = Content(p_doc[q].text)

\* C18 witness: https://example.org/records/survey/item123.ttl pushed, then
\* http://other.org/survey/item123.TTL, which replaced it.
C18_Witness ==
    /\ SameTail("p1", "p2")
    /\ p_doc["p1"].text = "a1"
    /\ p_doc["p2"].text = "b1"
    /\ "p1" \in p_before["p2"]
    /\ PSucceeded("p1")
    /\ PSucceeded("p2")
    /\ p_result["p2"].action = "update"
    /\ files[<<<<"survey">>, <<"item123", ".ttl">>>>] = Content("b1")

(***************************************************************************)
(* Properties of flow B.                                                   *)
(***************************************************************************)
Events(r, e) == SelectSeq(s_log[r], LAMBDA ev : ev.e = e)

\* The resolver queries request r has made for one kind, in order.
Queries(r, kind) ==
    SelectSeq(s_log[r], LAMBDA ev : ev.e = "query" /\ ev.kind = kind)

\* The internal ids those queries returned, in order.
Got(qs) ==
    LET hits == SelectSeq(qs, LAMBDA q : q.got # None)
    IN  [i \in 1..Len(hits) |-> hits[i].got]

InputList(r, kind) == ListOf(RecordOf(s_in[r]), KeyOf(kind))

HasInputList(r, kind) == HasList(RecordOf(s_in[r]), KeyOf(kind))

Resolving(r) == s_pc[r] \in {"subjects", "domains"}

Sanitized(r) == Len(Events(r, "sanitize")) > 0

\* The list stored under a key of fairsharing_record ([] when there is none).
IdsIn(body_dict, kind) == Get(RecordOf(body_dict), KeyOf(kind), EmptyList)

\* C3: the batch resolver's output is the input sequence restricted to the
\* identifiers that resolved, each replaced by the id its query returned,
\* in the input's order (duplicates kept, unresolved ones omitted).
C3_ResolvedInOrder ==
    \A r \in Submitters :
        /\ s_pc[r] = "subjects" => s_acc[r] = Got(Queries(r, "subject"))
        /\ s_pc[r] = "domains" =>
              /\ s_acc[r] = Got(Queries(r, "domain"))
              /\ HasInputList(r, "subject") =>
                    IdsIn(s_body[r], "subject") = List(Got(Queries(r, "subject")))
        /\ \A kind \in {"subject", "domain"} :
              LET qs == Queries(r, kind) IN
              /\ Len(qs) <= Len(InputList(r, kind))
              /\ \A i \in 1..Len(qs) : qs[i].iri = InputList(r, kind)[i].v
              /\ (Sanitized(r) /\ HasInputList(r, kind)) =>
                    /\ Len(qs) = Len(InputList(r, kind))
                    /\ IdsIn(s_body[r], kind) = List(Got(qs))

\* C3 witness: ["http://x/1", "http://x/2"] resolved with the first one
\* unresolved.
C3_Witness ==
    /\ s_pc["r1"] = "domains"
    /\ InputList("r1", "subject") = <<Str("http://x/1"), Str("http://x/2")>>
    /\ IdsIn(s_body["r1"], "subject") = List(<<Num(102)>>)

\* C4: the payload posted to the data endpoint holds no raw URI in
\* subject_ids / domain_ids: each entry is an id a resolver query of that
\* request returned, and a sequence none of whose identifiers resolved is
\* absent from the payload.
C4_PostedIdsResolved ==
    \A r \in Submitters :
        \A i \in 1..Len(s_log[r]) :
            s_log[r][i].e = "post" =>
                LET rec == RecordOf(s_log[r][i].payload) IN
                \A kind \in {"subject", "domain"} :
                    LET qs == Queries(r, kind) IN
                    /\ HasKey(rec, KeyOf(kind)) =>
                          /\ rec.v[KeyOf(kind)].t = "list"
                          /\ \A j \in 1..Len(rec.v[KeyOf(kind)].v) :
                                /\ rec.v[KeyOf(kind)].v[j] # None
                                /\ rec.v[KeyOf(kind)].v[j] \in
                                      {qs[k].got : k \in 1..Len(qs)}
                    /\ Got(qs) = <<>> => ~HasKey(rec, KeyOf(kind))

\* C4 witness: scenario 3, posted with subject_ids = [id of the second].
C4_Witness ==
    /\ s_pc["r1"] = "post"
    /\ InputList("r1", "subject") = <<Str("http://x/1"), Str("http://x/2")>>
    /\ IdsIn(s_body["r1"], "subject") = List(<<Num(102)>>)
    /\ HasInputList("r1", "domain")
    /\ ~HasKey(RecordOf(s_body["r1"]), "domain_ids")

\* The record of request r with each identifier list replaced by the ids
\* its queries returned.
ResolvedBody(r) ==
    LET rec0 == RecordOf(s_in[r])
        rec1 == IF HasList(rec0, "subject_ids")
                THEN DictSet(rec0, "subject_ids", List(Got(Queries(r, "subject"))))
                ELSE rec0
        rec2 == IF HasList(rec1, "domain_ids")
                THEN DictSet(rec1, "domain_ids", List(Got(Queries(r, "domain"))))
                ELSE rec1
    IN  DictSet(s_in[r], "fairsharing_record", rec2)

\* Positions of the events of one sort in the log of r.
At(r, e) == {i \in 1..Len(s_log[r]) : s_log[r][i].e = e}

\* C7: the steps of a submission occur in the order resolve, sanitize,
\* authenticate, post: the sanitizer runs once and after every resolver
\* query, the authentication call is not sent before it, and the payload
\* posted is the sanitizer's output on the resolved record.
C7_ResolveSanitizeAuthPost ==
    \A r \in Submitters :
        /\ Cardinality(At(r, "sanitize")) <= 1
        /\ Resolving(r) => At(r, "sanitize") = {}
        /\ s_pc[r] \in {"auth", "post"} => Cardinality(At(r, "sanitize")) = 1
        /\ \A i \in At(r, "sanitize") :
              /\ \A q \in At(r, "query") : q < i
              /\ \A kind \in {"subject", "domain"} :
                    Len(Queries(r, kind)) = Len(InputList(r, kind))
              /\ \A a \in At(r, "auth") : i < a
              /\ s_body[r] = remove_empty(ResolvedBody(r))
        /\ At(r, "auth") # {} => At(r, "sanitize") # {}
        /\ \A j \in At(r, "post") :
              /\ \A a \in At(r, "auth") : a < j
              /\ At(r, "auth") # {}
              /\ s_log[r][j].payload = remove_empty(ResolvedBody(r))

\* C7 witness: a posted submission whose domain list resolved to nothing.
C7_Witness ==
    /\ s_pc["r1"] = "post"
    /\ Len(Queries("r1", "subject")) = 2
    /\ Len(Queries("r1", "domain")) = 1
    /\ Got(Queries("r1", "domain")) = <<>>
    /\ Got(Queries("r1", "subject")) # <<>>

\* The authentication endpoint's answer to r, as logged at position i,
\* is a success carrying a jwt.
AuthSucceeded(r, i) ==
    /\ s_log[r][i].e = "auth_reply"
    /\ s_log[r][i].net = "ok"
    /\ Is2xx(s_log[r][i].status)
    /\ s_log[r][i].parses
    /\ Truthy(s_log[r][i].jwt)

Succeeded(r) ==
    /\ s_result[r].kind = "response"
    /\ s_result[r].status = 200

\* C8: in every submission, also among concurrent ones, the data endpoint
\* is called at most once, only after that request's own authentication
\* call returned a success status with a non-empty jwt, with that jwt as
\* bearer token; when the authentication answer is not a success or has
\* no jwt the request fails and the data endpoint is never called.
C8_PostOnlyWithOwnJwt ==
    \A r \in Submitters :
        /\ Cardinality(At(r, "post")) <= 1
        /\ Cardinality(At(r, "auth")) <= 1
        /\ \A j \in At(r, "post") :
              /\ j > 1
              /\ AuthSucceeded(r, j - 1)
              /\ s_log[r][j].bearer = s_log[r][j - 1].jwt
              /\ s_log[r][j].bearer = s_token[r]
              /\ \A q \in Submitters \ {r} : \A k \in At(q, "post") :
                    s_log[q][k].bearer # s_log[r][j].bearer
        /\ s_pc[r] = "post" => At(r, "post") # {}
        /\ \A i \in At(r, "auth_reply") :
              ~AuthSucceeded(r, i) =>
                  /\ s_pc[r] = "done"
                  /\ ~Succeeded(r)
                  /\ At(r, "post") = {}
        /\ Succeeded(r) => At(r, "post") # {}

\* C8 witness: two submissions in flight at the data endpoint at once.
C8_Witness ==
    /\ s_pc["r1"] = "post"
    /\ s_pc["r2"] = "post"
    /\ s_token["r1"] = Jwt(2)
    /\ s_token["r2"] = Jwt(1)

\* C9: a failed identifier resolution never aborts a submission: a query
\* that fails in any way yields "unresolved", the remaining identifiers
\* are still queried, and the request ends only past the sanitizer and,
\* the endpoint being configured, the authentication call.
C9_FailedLookupNeverAborts ==
    \A r \in Submitters :
        /\ \A i \in At(r, "query") :
              s_log[r][i].failed => s_log[r][i].got = None
        /\ Resolving(r) => s_result[r] = NoResult
        /\ s_pc[r] \in {"auth", "post", "done"} =>
              /\ Sanitized(r)
              /\ \A kind \in {"subject", "domain"} :
                    Len(Queries(r, kind)) = Len(InputList(r, kind))
              /\ env.AUTH_URL => At(r, "auth") # {}

\* C9 witness: the data post sent after every lookup failed.
C9_Witness ==
    /\ s_pc["r1"] = "post"
    /\ Len(Queries("r1", "subject")) = 2
    /\ Len(Queries("r1", "domain")) = 1
    /\ \A i \in At("r1", "query") : s_log["r1"][i].failed

\* The calls request r has sent over the network, as logged.
NetworkCalls(r) ==
    {i \in 1..Len(s_log[r]) : s_log[r][i].e \in {"query", "auth", "post"}}

\* C13: a submission made while the registry's auth or data endpoint URL
\* is absent sends nothing over the network, no resolver query either,
\* and ends with a 500 configuration error.
C13_ConfigFailsFast ==
    \A r \in Submitters :
        (s_pc[r] # "idle" /\ (~env.AUTH_URL \/ ~env.DATA_URL)) =>
            /\ NetworkCalls(r) = {}
            /\ s_pc[r] = "done" =>
                  /\ s_result[r].kind = "response"
                  /\ s_result[r].status = 500

(***************************************************************************)
(* Both flows: what the caller gets.                                       *)
(***************************************************************************)
\* A response with a status code and a message.
Structured(result) ==
    /\ result.kind = "response"
    /\ "status" \in DOMAIN result
    /\ "message" \in DOMAIN result

\* C10: every failure of a push or of a submission reaches the caller as
\* a structured error with a status code and a message, never as an
\* exception no handler caught.
C10_StructuredErrors ==
    /\ \A p \in Pushers : p_pc[p] = "done" => Structured(p_result[p])
    /\ \A r \in Submitters : s_pc[r] = "done" => Structured(s_result[r])

(***************************************************************************)
(* The sanitizer alone, on every value of the bounded universe.            *)
(***************************************************************************)
SanInit ==
    /\ env \in Configs({TRUE}, {TRUE}, {TRUE})
    /\ NoFiles
    /\ PushIdle
    /\ SubIdle
    /\ san_pc = "input"
    /\ san_in \in Level2
    /\ san_out = Null
    /\ san_again = Null

\* body_dict = remove_empty(body_dict)
Sanitize ==
    /\ san_pc = "input"
    /\ san_out' = remove_empty(san_in)
    /\ san_pc' = "once"
    /\ UNCHANGED <<env, push_vars, sub_vars, san_in, san_again>>

\* remove_empty applied to its own output
SanitizeAgain ==
    /\ san_pc = "once"
    /\ san_again' = remove_empty(san_out)
    /\ san_pc' = "twice"
    /\ UNCHANGED <<env, push_vars, sub_vars, san_in, san_out>>

SanNext == Sanitize \/ SanitizeAgain

SanitizeSpec == SanInit /\ [][SanNext]_vars

\* A container (at any depth) holding null, "", [] or {} directly.
RECURSIVE HasEmptyInside(_)
HasEmptyInside(x) ==
    IF x.t = "map"
    THEN \E k \in DOMAIN x.v : x.v[k] \in EMPTY \/ HasEmptyInside(x.v[k])
    ELSE IF x.t = "list"
    THEN \E i \in 1..Len(x.v) : x.v[i] \in EMPTY \/ HasEmptyInside(x.v[i])
    ELSE FALSE

\* C5: the sanitizer is idempotent: sanitize(sanitize(x)) = sanitize(x)
\* for every structured value x.
C5_Idempotent == san_pc = "twice" => san_again = san_out

\* C6: the sanitizer's output holds no null, "", [] or {} inside any
\* container at any depth.
C6_NoEmptyInside == san_pc # "input" => ~HasEmptyInside(san_out)

====
